---- MODULE Spec2Model ----
(***************************************************************************)
(* dentls (src/dentls.c): enumerate the regular files of one directory     *)
(* with raw getdents() batches, index their names in a binary search tree  *)
(* (tsearch), then replay the tree (twalk) and print or unlink every name. *)
(*                                                                         *)
(* Strings are sequences of byte values; a pointer to a name is a pair     *)
(* (block, offset) into the chain of getdents buffers, as in the code,     *)
(* where the tree stores dent->d_name and never a copy.                    *)
(***************************************************************************)
EXTENDS Integers, Sequences, FiniteSets, TLC

(***************************************************************************)
(* Bounds of the model.                                                    *)
(***************************************************************************)
\* Largest number of entries of the directory besides "." and "..", for
\* the directories drawn freely from the pool of entries.
MaxEntries == 3

\* The progress intervals.  The program initialises them to 1000 and 50
\* (src/dentls.c:27-28) and never assigns them; the model scales them down so
\* that minor and major markers occur within the visits of one walk.
progress_interval_minor == 2

progress_interval_major == 2

(***************************************************************************)
(* Strings                                                                 *)
(***************************************************************************)
\* "."
Dot == <<46>>

\* ".."
DotDot == <<46, 46>>

\* "delete", the literal of line 153
StrDelete == <<100, 101, 108, 101, 116, 101>>

\* strcmp(3): difference of the first differing bytes, NUL terminated.
RECURSIVE strcmp(_, _)
strcmp(s, t) ==
  IF s = <<>> /\ t = <<>> THEN 0
  ELSE IF s = <<>> THEN 0 - Head(t)
  ELSE IF t = <<>> THEN Head(s)
  ELSE IF Head(s) # Head(t) THEN Head(s) - Head(t)
  ELSE strcmp(Tail(s), Tail(t))

\* s[0] of a C string: the NUL terminator when the string is empty.
FirstChar(s) == IF s = <<>> THEN 0 ELSE Head(s)

(***************************************************************************)
(* Inputs: command line, environment, the directory                        *)
(***************************************************************************)
\* argv[1]: "-r", "d" (relative), "" (empty), "/d" (absolute)
Argv1Set == { <<45, 114>>, <<100>>, <<>>, <<47, 100>> }

\* An environment variable: unset (getenv returns NULL) or set to a string.
Unset == [set |-> FALSE, val |-> <<>>]

EnvSet(s) == [set |-> TRUE, val |-> s]

\* DENTLS_DELETE: unset, "delete", "Delete", "", "deleted"
DeleteEnvSet ==
  { Unset, EnvSet(StrDelete), EnvSet(<<68, 101, 108, 101, 116, 101>>),
    EnvSet(<<>>), EnvSet(StrDelete \o <<100>>) }

\* DENTLS_PROGRESS: unset or "1"
ProgressEnvSet == { Unset, EnvSet(<<49>>) }

\* The directory entries the model draws from: name and file type.
\* ".a", "a", "ab", "b" are regular files, "d" a directory, "l" a symlink.
DirPool ==
  { [d_name |-> <<46, 97>>, d_type |-> "DT_REG"],
    [d_name |-> <<97>>,     d_type |-> "DT_REG"],
    [d_name |-> <<97, 98>>, d_type |-> "DT_REG"],
    [d_name |-> <<98>>,     d_type |-> "DT_REG"],
    [d_name |-> <<100>>,    d_type |-> "DT_DIR"],
    [d_name |-> <<108>>,    d_type |-> "DT_LNK"] }

\* The directories of the model: every directory of at most MaxEntries
\* entries of the pool, and the directory of all its regular files.
Directories ==
  { d \in SUBSET DirPool : Cardinality(d) <= MaxEntries }
  \cup { { e \in DirPool : e.d_type = "DT_REG" } }

\* st_size as lstat reports it for the directory (line 174, used at 189):
\* 0 and 2 (filesystems that report a count or a sum of name lengths),
\* 12 (one record per buffer), 4096 (a block).
StSizes == { 0, 2, 12, 4096 }

\* The pseudo entries every directory has.
DotEntries ==
  { [d_name |-> Dot, d_type |-> "DT_DIR"], [d_name |-> DotDot, d_type |-> "DT_DIR"] }

(***************************************************************************)
(* struct linux_dirent records                                             *)
(***************************************************************************)
\* d_reclen of the record of a name: the header (long d_ino, off_t d_off,
\* unsigned short d_reclen: 18 bytes), the name, its NUL and the trailing
\* type byte, rounded up to 8 bytes.
RecLen(name) == ((18 + Len(name) + 2 + 7) \div 8) * 8

Record(e) == [d_name |-> e.d_name, d_type |-> e.d_type, d_reclen |-> RecLen(e.d_name)]

RECURSIVE TotalLen(_)
TotalLen(recs) ==
  IF recs = <<>> THEN 0 ELSE Head(recs).d_reclen + TotalLen(Tail(recs))

\* The bytes of a block after a batch: the records by their byte offset.
RECURSIVE Layout(_, _)
Layout(recs, off) ==
  IF recs = <<>> THEN [o \in {} |-> 0]
  ELSE (off :> Head(recs)) @@ Layout(Tail(recs), off + Head(recs).d_reclen)

(***************************************************************************)
(* The heap and the buffer chain                                           *)
(***************************************************************************)
EmptyBlock == [o \in {} |-> 0]

\* malloc(size): a new block; its id is its index in the heap.
Malloc(h, size) ==
  Append(h, [size |-> size, data |-> EmptyBlock, writes |-> 0, freed |-> 0])

\* linked_list_prepend_override: the new node becomes the head.
linked_list_prepend_override(head, data_ptr) == <<data_ptr>> \o head

\* free_linked_list: free(head->list_node_data_ptr) for every node.
RECURSIVE free_linked_list(_, _)
free_linked_list(head, h) ==
  IF head = <<>> THEN h
  ELSE free_linked_list(Tail(head), [h EXCEPT ![Head(head)].freed = @ + 1])

\* A pointer to the d_name of the record at byte offset off of block blk.
NamePtr(blk, off) == [blk |-> blk, off |-> off]

\* *(char **)node: the string a name pointer points to.
Deref(h, p) == h[p.blk].data[p.off].d_name

(***************************************************************************)
(* The ordered index: tsearch / twalk of <search.h>                        *)
(***************************************************************************)
Nil == [nil |-> TRUE]

IsNil(t) == "nil" \in DOMAIN t

Node(k) == [key |-> k, left |-> Nil, right |-> Nil]

compare_fnames(h, key1, key2) == strcmp(Deref(h, key1), Deref(h, key2))

\* tsearch: find the key or insert it as a new leaf of the search tree.
RECURSIVE tsearch(_, _, _)
tsearch(key, root, h) ==
  IF IsNil(root) THEN Node(key)
  ELSE LET r == compare_fnames(h, key, root.key) IN
       IF r = 0 THEN root
       ELSE IF r < 0 THEN [root EXCEPT !.left = tsearch(key, root.left, h)]
       ELSE [root EXCEPT !.right = tsearch(key, root.right, h)]

Visit(root, val, lvl) == [node |-> root.key, val |-> val, lvl |-> lvl]

\* twalk: the callbacks in the order the library makes them.  A node without
\* children is visited once (leaf); any other node three times (preorder,
\* postorder between its subtrees, endorder).
RECURSIVE trecurse(_, _)
trecurse(root, lvl) ==
  IF IsNil(root.left) /\ IsNil(root.right) THEN << Visit(root, "leaf", lvl) >>
  ELSE << Visit(root, "preorder", lvl) >>
       \o (IF IsNil(root.left) THEN <<>> ELSE trecurse(root.left, lvl + 1))
       \o << Visit(root, "postorder", lvl) >>
       \o (IF IsNil(root.right) THEN <<>> ELSE trecurse(root.right, lvl + 1))
       \o << Visit(root, "endorder", lvl) >>

twalk(root) == IF IsNil(root) THEN <<>> ELSE trecurse(root, 0)

(***************************************************************************)
(* The tests of main and walk_tree                                         *)
(***************************************************************************)
\* (variant: only a leading '-' is refused)
UsageErrorFlagOnly(a) == FirstChar(a) = 45

\* line 144: argv[1][0] == '-' || argv[1][0] != '/'
UsageError(a) == FirstChar(a) = 45 \/ FirstChar(a) # 47

\* (variant: strncmp over the length of the literal)
ModeRejectedPrefix(v) == ~(Len(v) >= Len(StrDelete) /\ SubSeq(v, 1, Len(StrDelete)) = StrDelete)

\* line 153: strcmp(getenv("DENTLS_DELETE"), "delete")
ModeRejected(v) == strcmp(v, StrDelete) # 0

\* (variant: while (bufcount > 0))
EndOfDirectoryOrError(ret) == ret <= 0

\* line 209: the while loop ends when the batch request returns 0
EndOfDirectory(ret) == ret = 0

\* line 218: "." and ".." are skipped
IsPseudo(name) == strcmp(Dot, name) = 0 \/ strcmp(DotDot, name) = 0

\* (variant: no test of the type)
WantedTypeAny(t) == TRUE

\* line 221: only regular files are indexed
WantedType(t) == t = "DT_REG"

\* (variants: the endorder case missing; postorder in place of endorder)
ActsOnLeafOnly(val) == val = "leaf"

ActsOnInorder(val) == val \in {"leaf", "postorder"}

\* lines 38-61: walk_tree acts at the leaf and endorder visits only
ActsOn(val) == val \in {"leaf", "endorder"}

\* (variant: the result of unlink ignored)
FatalNever(rc) == FALSE

\* line 63
Fatal(rc) == rc < 0

\* (variant: the two tests in the other order)
ProgressOutputMinorFirst(show, count) ==
  IF ~show THEN <<>>
  ELSE IF count % progress_interval_minor = 0
       THEN << [msg |-> "minor", n |-> count] >>
  ELSE IF count % (progress_interval_minor * progress_interval_major) = 0
       THEN << [msg |-> "major", n |-> count] >>
  ELSE <<>>

\* lines 69-79: what a visit writes to stderr once the counter is incremented
ProgressOutput(show, count) ==
  IF ~show THEN <<>>
  ELSE IF count % (progress_interval_minor * progress_interval_major) = 0
       THEN << [msg |-> "major", n |-> count] >>
  ELSE IF count % progress_interval_minor = 0
       THEN << [msg |-> "minor", n |-> count] >>
  ELSE <<>>

\* The exit status the parent sees for exit(n) or a return of n from main.
ExitCode(n) == n % 256

Msg(m) == [msg |-> m, n |-> 0]

(***************************************************************************)
(* The kernel side of getdents and unlink                                  *)
(***************************************************************************)
\* The entries the directory stream may return next: "." and ".." come
\* first, the others in any order.
NextChoices(pend) ==
  IF [d_name |-> Dot, d_type |-> "DT_DIR"] \in pend
    THEN { [d_name |-> Dot, d_type |-> "DT_DIR"] }
  ELSE IF [d_name |-> DotDot, d_type |-> "DT_DIR"] \in pend
    THEN { [d_name |-> DotDot, d_type |-> "DT_DIR"] }
  ELSE pend

\* The batches one request may return: at least one record, whole records
\* only, no more bytes than the buffer holds, possibly fewer than would fit.
RECURSIVE Batches(_, _)
Batches(pend, room) ==
  UNION { { << Record(e) >> }
            \cup { << Record(e) >> \o b :
                     b \in Batches(pend \ {e}, room - RecLen(e.d_name)) } :
          e \in { x \in NextChoices(pend) : RecLen(x.d_name) <= room } }

\* syscall(SYS_getdents, dirfd, buffer, size): the results it may have.
\* -1 with EIO stands for any failure of the device or descriptor; -1 with
\* EINVAL is the kernel's answer when the next record does not fit the buffer.
SysGetdents(pend, size) ==
  { [ret |-> -1, recs |-> <<>>, errno |-> "EIO"] }
  \cup (IF pend = {} THEN { [ret |-> 0, recs |-> <<>>, errno |-> ""] } ELSE {})
  \cup (IF \E e \in NextChoices(pend) : RecLen(e.d_name) > size
          THEN { [ret |-> -1, recs |-> <<>>, errno |-> "EINVAL"] } ELSE {})
  \cup { [ret |-> TotalLen(b), recs |-> b, errno |-> ""] : b \in Batches(pend, size) }

\* unlink(name) in the directory d: removes a non-directory entry of that
\* name, or fails (no such entry, a directory, no permission, ...).
SysUnlink(d, name) ==
  { [rc |-> -1, dir |-> d] }
  \cup { [rc |-> 0, dir |-> d \ {e}] :
         e \in { x \in d : x.d_name = name /\ x.d_type # "DT_DIR" } }

(***************************************************************************)
(* State                                                                   *)
(***************************************************************************)
VARIABLES
  argc, argv1,            \* the command line
  env_DELETE,             \* the environment variable DENTLS_DELETE
  env_PROGRESS,           \* the environment variable DENTLS_PROGRESS
  st_size,                \* the size lstat reports for the directory
  dir0,                   \* the entries of the directory when the run starts
  dir,                    \* the entries of the directory now
  pending,                \* the entries the open directory stream has yet to return
  pc,                     \* the position of main
  exitStatus,             \* the exit status once pc = "exited", else -1
  errno,
  print_only, show_progress, delete_count,
  getdents_buf_size, buffer, heap, dirent_buffers_list,
  dirfd, cwd,
  bufcount, tree, totalfiles,
  visits, vi,             \* the callbacks twalk makes, and the next one
  stdout, stderr,
  unlinkLog,              \* every unlink call: name and result
  enumDone                \* a batch request has returned zero records

vars ==
  << argc, argv1, env_DELETE, env_PROGRESS, st_size, dir0, dir, pending, pc,
     exitStatus, errno, print_only, show_progress, delete_count,
     getdents_buf_size, buffer, heap, dirent_buffers_list, dirfd, cwd,
     bufcount, tree, totalfiles, visits, vi, stdout, stderr, unlinkLog,
     enumDone >>

inputs == << argc, argv1, env_DELETE, env_PROGRESS, st_size, dir0 >>

Init ==
  /\ argc \in {1, 2}
  /\ argv1 \in (IF argc = 1 THEN { <<>> } ELSE Argv1Set)
  /\ env_DELETE \in DeleteEnvSet
  /\ env_PROGRESS \in ProgressEnvSet
  /\ st_size \in StSizes
  /\ dir0 \in Directories
  /\ dir = dir0
  /\ pending = {}
  /\ pc = "args"
  /\ exitStatus = -1
  /\ errno = ""
  /\ print_only = 1
  /\ show_progress = 0
  /\ delete_count = 0
  /\ getdents_buf_size = 0
  /\ buffer = 0
  /\ heap = <<>>
  /\ dirent_buffers_list = <<>>
  /\ dirfd = -1
  /\ cwd = "elsewhere"
  /\ bufcount = 0
  /\ tree = Nil
  /\ totalfiles = 0
  /\ visits = <<>>
  /\ vi = 1
  /\ stdout = <<>>
  /\ stderr = <<>>
  /\ unlinkLog = <<>>
  /\ enumDone = FALSE

\* exit(n), or return n from main, after writing msgs to stderr.
Exit(n, msgs) ==
  /\ pc' = "exited"
  /\ exitStatus' = ExitCode(n)
  /\ stderr' = stderr \o msgs

(***************************************************************************)
(* main, lines 139-207: arguments, environment, the path, the first buffer *)
(***************************************************************************)
\* lines 139-150
CheckArgs ==
  /\ pc = "args"
  /\ IF argc < 2 THEN Exit(1, << Msg("You must supply a valid directory path.") >>)
     ELSE IF UsageError(argv1) THEN Exit(-1, << Msg("Usage") >>)
     ELSE /\ pc' = "env"
          /\ UNCHANGED << exitStatus, stderr >>
  /\ UNCHANGED << inputs, dir, pending, errno, print_only, show_progress,
                  delete_count, getdents_buf_size, buffer, heap,
                  dirent_buffers_list, dirfd, cwd, bufcount, tree, totalfiles,
                  visits, vi, stdout, unlinkLog, enumDone >>

\* lines 152-164
ReadEnv ==
  /\ pc = "env"
  /\ IF env_DELETE.set /\ ModeRejected(env_DELETE.val)
       THEN /\ Exit(1, << Msg("please set DENTLS_DELETE to 'delete', *EXACTLY*") >>)
            /\ UNCHANGED << print_only, show_progress >>
       ELSE /\ print_only' = IF env_DELETE.set THEN 0 ELSE print_only
            /\ show_progress' = IF env_PROGRESS.set THEN 1 ELSE show_progress
            /\ pc' = "path"
            /\ UNCHANGED << exitStatus, stderr >>
  /\ UNCHANGED << inputs, dir, pending, errno, delete_count,
                  getdents_buf_size, buffer, heap, dirent_buffers_list, dirfd,
                  cwd, bufcount, tree, totalfiles, visits, vi, stdout,
                  unlinkLog, enumDone >>

\* lines 169-189: access, lstat, S_ISDIR; then the buffer size
CheckPath ==
  /\ pc = "path"
  /\ \/ /\ Exit(1, << Msg("Could not access directory") >>)
        /\ UNCHANGED getdents_buf_size
     \/ /\ Exit(1, << Msg("Unable to lstat path") >>)
        /\ UNCHANGED getdents_buf_size
     \/ /\ Exit(1, << Msg("The path is not a directory.") >>)
        /\ UNCHANGED getdents_buf_size
     \/ /\ getdents_buf_size' = st_size * 2
        /\ pc' = "alloc"
        /\ UNCHANGED << exitStatus, stderr >>
  /\ UNCHANGED << inputs, dir, pending, errno, print_only, show_progress,
                  delete_count, buffer, heap, dirent_buffers_list, dirfd, cwd,
                  bufcount, tree, totalfiles, visits, vi, stdout, unlinkLog,
                  enumDone >>

\* lines 191-195: the first buffer, prepended to the chain.  malloc may
\* return NULL (for a size of 0 as well), here or for the list node.
AllocFirst ==
  /\ pc = "alloc"
  /\ \/ /\ Exit(1, << Msg("malloc failed") >>)
        /\ UNCHANGED << buffer, heap, dirent_buffers_list >>
     \/ /\ heap' = Malloc(heap, getdents_buf_size)
        /\ buffer' = Len(heap) + 1
        /\ dirent_buffers_list' =
             linked_list_prepend_override(dirent_buffers_list, Len(heap) + 1)
        /\ pc' = "open"
        /\ UNCHANGED << exitStatus, stderr >>
  /\ UNCHANGED << inputs, dir, pending, errno, print_only, show_progress,
                  delete_count, getdents_buf_size, dirfd, cwd, bufcount, tree,
                  totalfiles, visits, vi, stdout, unlinkLog, enumDone >>

\* lines 198-207: open the directory and make it the current directory
OpenDir ==
  /\ pc = "open"
  /\ \/ /\ Exit(1, << Msg("Open error") >>)
        /\ UNCHANGED << dirfd, cwd, pending >>
     \/ /\ Exit(1, << Msg("fchdir") >>)
        /\ dirfd' = 3
        /\ pending' = DotEntries \cup dir
        /\ UNCHANGED cwd
     \/ /\ dirfd' = 3
        /\ pending' = DotEntries \cup dir
        /\ cwd' = "dir"
        /\ pc' = "getdents"
        /\ UNCHANGED << exitStatus, stderr >>
  /\ UNCHANGED << inputs, dir, errno, print_only, show_progress, delete_count,
                  getdents_buf_size, buffer, heap, dirent_buffers_list,
                  bufcount, tree, totalfiles, visits, vi, stdout, unlinkLog,
                  enumDone >>

(***************************************************************************)
(* main, lines 209-240: the enumeration loop                               *)
(***************************************************************************)
\* line 209-213, 241-244: one batch request into the current buffer.  A
\* result of 0 ends the loop and starts the walk; -1 is fatal.
Getdents ==
  /\ pc = "getdents"
  /\ \E r \in SysGetdents(pending, getdents_buf_size) :
       /\ bufcount' = r.ret
       /\ errno' = IF r.ret = -1 THEN r.errno ELSE errno
       /\ heap' = IF r.recs = <<>> THEN heap
                  ELSE [heap EXCEPT ![buffer].data = Layout(r.recs, 0),
                                    ![buffer].writes = @ + 1]
       /\ pending' =
            pending \ { e \in pending : \E i \in 1..Len(r.recs) :
                                          r.recs[i].d_name = e.d_name }
       /\ enumDone' = (enumDone \/ r.ret = 0)
       /\ IF EndOfDirectory(r.ret)
            THEN /\ stderr' = stderr \o << [msg |-> "Total files", n |-> totalfiles],
                                           Msg(IF print_only # 0 THEN "Performing print..."
                                               ELSE "Performing delete...") >>
                 /\ visits' = twalk(tree)
                 /\ vi' = 1
                 /\ pc' = "walk"
                 /\ UNCHANGED exitStatus
            ELSE IF r.ret = -1
            THEN /\ Exit(1, << Msg("getdents") >>)
                 /\ UNCHANGED << visits, vi >>
            ELSE /\ pc' = "scan"
                 /\ UNCHANGED << exitStatus, stderr, visits, vi >>
  /\ UNCHANGED << inputs, dir, print_only, show_progress, delete_count,
                  getdents_buf_size, buffer, dirent_buffers_list, dirfd, cwd,
                  tree, totalfiles, stdout, unlinkLog >>

\* lines 214-232: the records of the batch, by their offsets.  tsearch
\* returns NULL (no memory for a node) at the record at offset failAt, if any.
RECURSIVE Scan(_, _, _, _, _, _, _)
Scan(offset, bcount, blk, h, tr, total, failAt) ==
  IF ~(offset < bcount) THEN [ok |-> TRUE, tree |-> tr, totalfiles |-> total]
  ELSE LET dent == h[blk].data[offset]
           wanted == ~IsPseudo(dent.d_name) /\ WantedType(dent.d_type)
       IN  IF wanted /\ offset = failAt
             THEN [ok |-> FALSE, tree |-> tr, totalfiles |-> total]
           ELSE Scan(offset + dent.d_reclen, bcount, blk, h,
                     IF wanted THEN tsearch(NamePtr(blk, offset), tr, h) ELSE tr,
                     IF wanted THEN total + 1 ELSE total, failAt)

\* (variant: one buffer for every request)
PrepareNextBufferReuse(h, chain, buf, size) ==
  [heap |-> h, buffer |-> buf, list |-> chain]

\* lines 234-239: a new buffer for the next request, prepended to the chain
PrepareNextBuffer(h, chain, buf, size) ==
  [heap |-> Malloc(h, size), buffer |-> Len(h) + 1,
   list |-> linked_list_prepend_override(chain, Len(h) + 1)]

\* lines 214-239: the body of the while loop
ScanBatch ==
  /\ pc = "scan"
  /\ \E failAt \in {-1} \cup
                   { o \in DOMAIN heap[buffer].data :
                       /\ ~IsPseudo(heap[buffer].data[o].d_name)
                       /\ WantedType(heap[buffer].data[o].d_type) } :
       LET res == Scan(0, bufcount, buffer, heap, tree, totalfiles, failAt) IN
       /\ tree' = res.tree
       /\ totalfiles' = res.totalfiles
       /\ IF ~res.ok
            THEN /\ Exit(1, << Msg("Cannot acquire resources for tree!") >>)
                 /\ UNCHANGED << buffer, heap, dirent_buffers_list >>
            ELSE \/ /\ Exit(1, << Msg("malloc failed") >>)
                    /\ UNCHANGED << buffer, heap, dirent_buffers_list >>
                 \/ LET nxt == PrepareNextBuffer(heap, dirent_buffers_list,
                                                 buffer, getdents_buf_size) IN
                    /\ heap' = nxt.heap
                    /\ buffer' = nxt.buffer
                    /\ dirent_buffers_list' = nxt.list
                    /\ pc' = "getdents"
                    /\ UNCHANGED << exitStatus, stderr >>
  /\ UNCHANGED << inputs, dir, pending, errno, print_only, show_progress,
                  delete_count, getdents_buf_size, dirfd, cwd, bufcount,
                  visits, vi, stdout, unlinkLog, enumDone >>

(***************************************************************************)
(* walk_tree, lines 36-80: one callback of twalk                           *)
(***************************************************************************)
WalkStep ==
  /\ pc = "walk"
  /\ vi <= Len(visits)
  /\ LET v == visits[vi]
         name == Deref(heap, v.node)
     IN  IF ~ActsOn(v.val)
           THEN /\ vi' = vi + 1
                /\ UNCHANGED << dir, pc, exitStatus, delete_count, stdout,
                                stderr, unlinkLog >>
         ELSE \E u \in (IF print_only # 0 THEN { [rc |-> 0, dir |-> dir] }
                        ELSE IF cwd = "dir" THEN SysUnlink(dir, name)
                        ELSE { [rc |-> -1, dir |-> dir] }) :
                /\ stdout' = IF print_only # 0 THEN Append(stdout, name) ELSE stdout
                /\ unlinkLog' = IF print_only # 0 THEN unlinkLog
                                ELSE Append(unlinkLog, [name |-> name, rc |-> u.rc])
                /\ dir' = u.dir
                /\ delete_count' = delete_count + 1
                /\ IF Fatal(u.rc)
                     THEN /\ Exit(1, << Msg("Failed to delete"), Msg("unlink problem") >>)
                          /\ UNCHANGED vi
                     ELSE /\ stderr' = stderr \o
                                       ProgressOutput(show_progress # 0, delete_count + 1)
                          /\ vi' = vi + 1
                          /\ UNCHANGED << pc, exitStatus >>
  /\ UNCHANGED << inputs, pending, errno, print_only, show_progress,
                  getdents_buf_size, buffer, heap, dirent_buffers_list, dirfd,
                  cwd, bufcount, tree, totalfiles, visits, enumDone >>

(***************************************************************************)
(* main, lines 245-249: teardown                                           *)
(***************************************************************************)
Finish ==
  /\ pc = "walk"
  /\ vi > Len(visits)
  /\ Exit(0, << Msg("Done") >>)
  /\ dirfd' = -1
  /\ heap' = free_linked_list(dirent_buffers_list, heap)
  /\ tree' = Nil
  /\ UNCHANGED << inputs, dir, pending, errno, print_only, show_progress,
                  delete_count, getdents_buf_size, buffer, dirent_buffers_list,
                  cwd, bufcount, totalfiles, visits, vi, stdout, unlinkLog,
                  enumDone >>

Next ==
  \/ CheckArgs
  \/ ReadEnv
  \/ CheckPath
  \/ AllocFirst
  \/ OpenDir
  \/ Getdents
  \/ ScanBatch
  \/ WalkStep
  \/ Finish

Spec == Init /\ [][Next]_vars

(***************************************************************************)
(* Vocabulary of the properties                                            *)
(***************************************************************************)
Range(seq) == { seq[i] : i \in 1..Len(seq) }

RegularNames(d) == { e.d_name : e \in { x \in d : x.d_type = "DT_REG" } }

NonRegular(d) == { e \in d : e.d_type # "DT_REG" }

\* The names the walk has acted on so far, in order.
Acted ==
  IF print_only # 0 THEN stdout
  ELSE [i \in 1..Len(unlinkLog) |-> unlinkLog[i].name]

\* The progress markers written to stderr so far.
IsMarker(m) == m.msg \in {"minor", "major"}

Markers == SelectSeq(stderr, IsMarker)

LastMsg == IF stderr = <<>> THEN "" ELSE stderr[Len(stderr)].msg

\* The names of the index, and its postorder.
RECURSIVE TreeNames(_)
TreeNames(t) ==
  IF IsNil(t) THEN {}
  ELSE { Deref(heap, t.key) } \cup TreeNames(t.left) \cup TreeNames(t.right)

RECURSIVE TreeKeys(_)
TreeKeys(t) ==
  IF IsNil(t) THEN {} ELSE { t.key } \cup TreeKeys(t.left) \cup TreeKeys(t.right)

RECURSIVE PostorderNames(_)
PostorderNames(t) ==
  IF IsNil(t) THEN <<>>
  ELSE PostorderNames(t.left) \o PostorderNames(t.right) \o << Deref(heap, t.key) >>

Completed == pc = "exited" /\ exitStatus = 0

(***************************************************************************)
(* C1                                                                      *)
(***************************************************************************)
\* C1: in report mode a run that completes has printed every regular-file
\* name of the directory exactly once and no other name, whatever the
\* content, the enumeration order and the split into batches.
ReportEmitsExactlyRegularFiles ==
  (Completed /\ print_only # 0) =>
    /\ Range(stdout) = RegularNames(dir0)
    /\ Len(stdout) = Cardinality(RegularNames(dir0))

\* A completed report of a directory with two regular files and another
\* entry, read in at least two non-empty batches.
ReportWitness ==
  /\ Completed /\ print_only # 0
  /\ Cardinality(RegularNames(dir0)) >= 2
  /\ NonRegular(dir0) # {}
  /\ Len(heap) >= 3
  /\ Len(stdout) = 2

(***************************************************************************)
(* C2                                                                      *)
(***************************************************************************)
\* C2: a destructive run that completes has called unlink exactly once for
\* every regular-file name and for nothing else, every call succeeded, and
\* the directory holds exactly its non-regular entries.
DestructiveRemovesExactlyRegularFiles ==
  (Completed /\ print_only = 0) =>
    /\ dir = NonRegular(dir0)
    /\ Range(Acted) = RegularNames(dir0)
    /\ Len(unlinkLog) = Cardinality(RegularNames(dir0))
    /\ \A i \in 1..Len(unlinkLog) : unlinkLog[i].rc = 0

DestructiveWitness ==
  /\ Completed /\ print_only = 0
  /\ Cardinality(RegularNames(dir0)) >= 2
  /\ NonRegular(dir0) # {}
  /\ dir = NonRegular(dir0)

(***************************************************************************)
(* C3                                                                      *)
(***************************************************************************)
\* C3: a failed removal is the last one attempted: the run has exited with
\* a non-zero status, and exactly the names removed before it are missing.
RemovalFailureStopsRun ==
  \A i \in 1..Len(unlinkLog) :
    unlinkLog[i].rc < 0 =>
      /\ i = Len(unlinkLog)
      /\ pc = "exited" /\ exitStatus # 0
      /\ dir = { e \in dir0 : e.d_name \notin { unlinkLog[j].name : j \in 1..(i - 1) } }
      /\ Cardinality(dir0 \ dir) = i - 1

\* The second removal failed, one file is gone and two regular files remain.
RemovalFailureWitness ==
  /\ Len(unlinkLog) = 2
  /\ unlinkLog[2].rc < 0
  /\ Cardinality(dir0 \ dir) = 1
  /\ Cardinality(RegularNames(dir)) = 2

(***************************************************************************)
(* C4                                                                      *)
(***************************************************************************)
\* The invocations C4 is about: a first argument that does not start with
\* '/' (a relative path, a flag), or DENTLS_DELETE set to another value
\* than "delete".
BadInvocation ==
  \/ argc >= 2 /\ FirstChar(argv1) # 47
  \/ env_DELETE.set /\ env_DELETE.val # StrDelete

\* C4: such a run never gets past the checks of the arguments and of the
\* environment: nothing is allocated, opened, entered, enumerated or
\* removed, and once it has ended its exit status is not zero.
UsageRejectionNoMutation ==
  BadInvocation =>
    /\ pc \in {"args", "env", "exited"}
    /\ dir = dir0
    /\ dirfd = -1 /\ cwd # "dir" /\ pending = {}
    /\ heap = <<>> /\ bufcount = 0
    /\ unlinkLog = <<>> /\ stdout = <<>>
    /\ pc = "exited" => exitStatus # 0

\* A relative path was rejected with the status of return -1.
UsageRejectionWitness ==
  /\ argc = 2 /\ FirstChar(argv1) = 100
  /\ pc = "exited" /\ exitStatus = 255
  /\ dir0 # {}

(***************************************************************************)
(* C5                                                                      *)
(***************************************************************************)
\* C5: unlink is called only when DENTLS_DELETE is exactly "delete"; from
\* the end of the environment checks on, print_only has the value the
\* variable gives it; with the variable unset the directory is never
\* changed; in destructive mode nothing is written to stdout.
DeleteOnlyWithExactLiteral ==
  /\ (unlinkLog # <<>> \/ dir # dir0 \/ print_only = 0) => env_DELETE = EnvSet(StrDelete)
  /\ pc \in {"path", "alloc", "open", "getdents", "scan", "walk"} =>
       print_only = (IF env_DELETE = EnvSet(StrDelete) THEN 0 ELSE 1)
  /\ ~env_DELETE.set => (dir = dir0 /\ unlinkLog = <<>>)
  /\ print_only = 0 => stdout = <<>>

\* A destructive walk under way: one file removed, nothing printed.
DeleteModeWitness ==
  /\ pc = "walk"
  /\ env_DELETE = EnvSet(StrDelete)
  /\ Len(unlinkLog) = 1
  /\ dir # dir0
  /\ stdout = <<>>

(***************************************************************************)
(* C6                                                                      *)
(***************************************************************************)
\* C6: for every reported size and every directory content the enumeration
\* goes on until a batch request returns zero records: no request is
\* refused because of the size of the buffer, and every regular-file name
\* of the directory is in the index when the walk starts.
EnumerationCompleteForEverySize ==
  /\ errno # "EINVAL"
  /\ pc = "walk" => (enumDone /\ TreeNames(tree) = RegularNames(dir0))

WalkOnlyAfterFullEnumeration ==
  /\ (stdout # <<>> \/ unlinkLog # <<>> \/ dir # dir0 \/ delete_count > 0) =>
       (enumDone /\ pending = {})
  /\ bufcount = -1 =>
       /\ pc = "exited" /\ exitStatus # 0
       /\ stdout = <<>> /\ unlinkLog = <<>> /\ dir = dir0

\* A batch request failed after regular files had been indexed.
BatchFailureWitness ==
  /\ bufcount = -1
  /\ errno = "EIO"
  /\ totalfiles >= 1
  /\ pending # {}
  /\ pc = "exited"

(***************************************************************************)
(* C9                                                                      *)
(***************************************************************************)
\* The visits that went through the progress section of walk_tree: all the
\* counted ones, but the removal that failed.
VisitsDone == IF LastMsg = "unlink problem" THEN delete_count - 1 ELSE delete_count

HasMarker(kind, k) == \E i \in 1..Len(Markers) : Markers[i] = [msg |-> kind, n |-> k]

\* C9 as stated: with progress reporting enabled a minor marker whenever the
\* counter is a multiple of N and a major marker whenever it is a multiple
\* of N x M; with progress reporting disabled no marker.
MarkerAtEveryMultiple ==
  /\ show_progress = 0 => Markers = <<>>
  /\ show_progress # 0 =>
       \A k \in 1..VisitsDone :
         /\ k % progress_interval_minor = 0 => HasMarker("minor", k)
         /\ k % (progress_interval_minor * progress_interval_major) = 0 =>
              HasMarker("major", k)

\* The markers of the first k visits: at a multiple of N x M the major
\* marker and no minor one.
RECURSIVE ExpectedMarkers(_)
ExpectedMarkers(k) ==
  IF k = 0 THEN <<>>
  ELSE ExpectedMarkers(k - 1) \o
       (IF k % (progress_interval_minor * progress_interval_major) = 0
          THEN << [msg |-> "major", n |-> k] >>
        ELSE IF k % progress_interval_minor = 0
          THEN << [msg |-> "minor", n |-> k] >>
        ELSE <<>>)

\* C9 (amended): the counter is the number of nodes acted on; with progress
\* reporting enabled every visit whose action did not fail emits the major
\* marker when the counter is a multiple of N x M, a minor marker when it
\* is a multiple of N but not of N x M, and nothing otherwise; with progress
\* reporting disabled no marker is emitted.
MarkersMajorReplacesMinor ==
  /\ delete_count = Len(Acted)
  /\ Markers = (IF show_progress # 0 THEN ExpectedMarkers(VisitsDone) ELSE <<>>)

\* N x M visits with progress reporting: a major marker was written.
ProgressWitness ==
  /\ show_progress # 0
  /\ delete_count = progress_interval_minor * progress_interval_major
  /\ HasMarker("major", delete_count)
  /\ HasMarker("minor", progress_interval_minor)

(***************************************************************************)
(* C10                                                                     *)
(***************************************************************************)
\* C10: every batch is written into a block of the chain that no batch was
\* written into before; while the run has not completed no block is freed
\* and every name of the index lies in a block of the chain; a completed run
\* has freed every block exactly once.
BufferChainDiscipline ==
  /\ \A b \in 1..Len(heap) :
       /\ heap[b].writes <= 1
       /\ b \in Range(dirent_buffers_list)
       /\ ~Completed => heap[b].freed = 0
       /\ Completed => heap[b].freed = 1
  /\ Len(dirent_buffers_list) = Len(heap)
  /\ pc = "getdents" =>
       /\ buffer = Head(dirent_buffers_list)
       /\ heap[buffer].writes = 0
       /\ heap[buffer].data = EmptyBlock
  /\ \A k \in TreeKeys(tree) :
       /\ k.blk \in Range(dirent_buffers_list)
       /\ heap[k.blk].freed = 0
       /\ k.off \in DOMAIN heap[k.blk].data

\* A completed run that read two non-empty batches: three blocks, all freed.
TeardownWitness ==
  /\ Completed
  /\ Len(heap) >= 3
  /\ delete_count >= 2
  /\ \A b \in 1..Len(heap) : heap[b].freed = 1

====
